---- MODULE Spec2Model ----
(***************************************************************************)
(* Skip Renderer (Blender add-on): the change-detection oracle             *)
(* detect_changing(), the dry pass simulate_skip_frames(), the Process and *)
(* Stop operators and the timer callback process() of src/__init__.py.     *)
(*                                                                         *)
(* Frames are integers.  A file path frame_folder/<i>.<extension> is       *)
(* modelled by the frame index i; NoPath (0) is Python's None.  Durations  *)
(* are whole seconds.  F-curve values are integers in units of 1e-8, so    *)
(* that the tolerance 1e-8 of detect_changing() is Tolerance == 1.         *)
(***************************************************************************)
EXTENDS Integers, Sequences, FiniteSets, TLC

(***************************************************************************)
(* Bounds of the model                                                     *)
(***************************************************************************)
\* frames of the scenes of the dry-pass specification are 1..MaxFrame
MaxFrame == 5
\* frames of the scenes of the run specification are 1..RunMaxFrame
RunMaxFrame == 3
\* steepest slope of an f-curve, in units of 1e-8 per frame
MaxSlope == 2
\* number of times the Process operator is invoked in one behaviour
MaxRuns == 2
\* the duration of a render and of a copy, in seconds
MaxRenderDuration == 2
MaxCopyDuration == 1

(***************************************************************************)
(* Program constants                                                       *)
(***************************************************************************)
\* abs(...) > 1e-8 in detect_changing(), in units of 1e-8
Tolerance == 1
\* alpha = 0.3 of the exponential moving average, in tenths
AlphaTenths == 3
\* None, for last_rendered_path
NoPath == 0

Max(a, b) == IF a >= b THEN a ELSE b
Min(a, b) == IF a <= b THEN a ELSE b
Abs(x) == IF x >= 0 THEN x ELSE -x
Range(s) == {s[k] : k \in DOMAIN s}

RECURSIVE Pow10(_)
Pow10(e) == IF e = 0 THEN 1 ELSE 10 * Pow10(e - 1)

(***************************************************************************)
(* The host's animation data.  An f-curve is linear between two keyframes  *)
(* k1 < k2 and constant outside them: 0 up to k1, then rising by slope per *)
(* frame, then constant from k2 on.  An entity's fcurves is a set of       *)
(* f-curves, empty when it has no animation data or no action.             *)
(***************************************************************************)
evaluate(fcurve, frame) ==
    fcurve.slope * (Min(Max(frame, fcurve.k1), fcurve.k2) - fcurve.k1)

FCurves(maxFrame) ==
    {[k1 |-> a, k2 |-> b, slope |-> s] :
        a \in 0..(maxFrame - 1), b \in 1..maxFrame, s \in 1..MaxSlope}

\* the f-curves that have k1 < k2, and the flat curve
Library(maxFrame) ==
    {c \in FCurves(maxFrame) : c.k1 < c.k2} \cup {[k1 |-> 0, k2 |-> 0, slope |-> 0]}

\* an entity's animation: none, or an action with one f-curve of the library
Animations(lib) == {{}} \cup {{c} : c \in lib}

Ramp == [k1 |-> 0, k2 |-> MaxFrame + 1, slope |-> MaxSlope]

\* a material: its own animation, and a node tree read only if use_nodes
Materials(lib) ==
    {[name |-> "Mat", fcurves |-> a, use_nodes |-> u, node_tree |-> {Ramp}] :
        a \in Animations(lib), u \in BOOLEAN}

\* scene.objects: one object "Cube" with one modifier and one material slot,
\* the slot empty (<<>>) or holding a material (<<m>>)
Scenes(lib, modlib, mats) ==
    {<<[name |-> "Cube", fcurves |-> a, modifiers |-> <<m>>, material_slots |-> <<s>>]>> :
        a \in Animations(lib), m \in modlib, s \in {<<>>} \cup {<<x>> : x \in mats}}

(***************************************************************************)
(* detect_changing(): the objects and the materials that have an f-curve   *)
(* whose value at the current frame differs from its value at the previous *)
(* frame (clamped to frame_start) by more than the tolerance.              *)
(***************************************************************************)
changed(fcurves, frame, prev_frame) ==
    \E fcurve \in fcurves :
        Abs(evaluate(fcurve, frame) - evaluate(fcurve, prev_frame)) > Tolerance

detect_changing(objects, frame_current, frame_start) ==
    LET frame == frame_current
        prev_frame == Max(frame - 1, frame_start)
        objs == Range(objects)
        mats == UNION {{slot[1] : slot \in {sl \in Range(obj.material_slots) : sl # <<>>}} : obj \in objs}
        changed_objects ==
            {obj.name : obj \in
                {o \in objs :
                    \/ changed(o.fcurves, frame, prev_frame)
                    \/ \E k \in DOMAIN o.modifiers : changed(o.modifiers[k], frame, prev_frame)}}
        changed_materials ==
            {mat.name : mat \in
                {m \in mats :
                    \/ changed(m.fcurves, frame, prev_frame)
                    \/ m.use_nodes /\ changed(m.node_tree, frame, prev_frame)}}
    IN  <<changed_objects, changed_materials>>

(***************************************************************************)
(* simulate_skip_frames(): the dry pass.  Returns the skip list, the two   *)
(* counts and the scene's current frame on return.                         *)
(***************************************************************************)
RECURSIVE SumTrue(_)
SumTrue(s) == IF s = <<>> THEN 0 ELSE (IF s[1] THEN 1 ELSE 0) + SumTrue(Tail(s))

\* scene.frame_set(frame): the scene's current frame becomes frame
frame_set(frame) == frame

\* an iteration that keeps comparing with the first frame's signature
sweep_body_keeps_prev(objects, start, frame, st) ==
    LET current == frame_set(frame)
        sig == detect_changing(objects, current, start)
    IN  [frame_current |-> current,
         prev |-> st.prev,
         skip_list |-> Append(st.skip_list, sig = st.prev)]

\* one iteration of the for loop of the sweep, lines 69-78; st holds the
\* scene's current frame, the previous signature and the list so far
sweep_body(objects, start, frame, st) ==
    LET current == frame_set(frame)
        sig == detect_changing(objects, current, start)
    IN  [frame_current |-> current,
         prev |-> sig,
         skip_list |-> Append(st.skip_list, sig = st.prev)]

RECURSIVE sweep(_, _, _, _, _)
sweep(objects, start, end, frame, st) ==
    IF frame > end THEN st
    ELSE sweep(objects, start, end, frame + 1, sweep_body(objects, start, frame, st))

\* a sweep that begins one frame late
sweep_from_late(start) == start + 2

\* range(start + 1, end + 1): the first frame of the for loop
sweep_from(start) == start + 1

\* a test that lets the range of no frames through
empty_range_off_by_one(start, end) == start > end + 1

\* line 57: if start > end
empty_range(start, end) == start > end

\* a return that leaves the scene on the last frame of the sweep
restore_frame_forgotten(swept_frame, original_frame) == swept_frame

\* line 80: scene.frame_set(original_frame) after the sweep
restore_frame(swept_frame, original_frame) == frame_set(original_frame)

simulate_skip_frames(objects, start, end, frame_current) ==
    LET original_frame == frame_current
    IN  IF empty_range(start, end)
        THEN [skip_list |-> <<>>, total_skip |-> 0, total_render |-> 0,
              frame_current |-> frame_current]
        ELSE LET first == [frame_current |-> frame_set(start),
                           prev |-> detect_changing(objects, frame_set(start), start),
                           skip_list |-> <<FALSE>>]
                 swept == sweep(objects, start, end, sweep_from(start), first)
                 total_skip == SumTrue(swept.skip_list)
             IN  [skip_list |-> swept.skip_list,
                  total_skip |-> total_skip,
                  total_render |-> (end - start + 1) - total_skip,
                  frame_current |-> restore_frame(swept.frame_current, original_frame)]

(***************************************************************************)
(* Exact arithmetic for the timing statistics.  ema_render_time is the     *)
(* decimal fraction n / 10^e, kept normalised; the ETA is a fraction       *)
(* n / d with d > 0.                                                       *)
(***************************************************************************)
RECURSIVE Normalise(_)
Normalise(x) ==
    IF x.e > 0 /\ x.n % 10 = 0 THEN Normalise([n |-> x.n \div 10, e |-> x.e - 1])
    ELSE x

Zero == [n |-> 0, e |-> 0]

\* alpha * (render_duration + save_duration) + (1 - alpha) * ema_render_time
ema_update(cost, ema) ==
    Normalise([n |-> AlphaTenths * cost * Pow10(ema.e) + (10 - AlphaTenths) * ema.n,
               e |-> ema.e + 1])

\* render_left and skip_left, lines 272-273
render_left(ps) == ps.total_render - ps.render_count_done
skip_left(ps) == ps.total_skip - ps.skip_count_done

\* eta_seconds, lines 275-281: avg_skip_time is skip_time_total /
\* skip_count_done, or 0.0 when nothing was copied yet
eta_seconds(ps) ==
    LET c == IF ps.skip_count_done > 0 THEN ps.skip_count_done ELSE 1
        t == IF ps.skip_count_done > 0 THEN ps.skip_time_total ELSE 0
    IN  [n |-> render_left(ps) * ps.ema_render_time.n * c
                + skip_left(ps) * t * Pow10(ps.ema_render_time.e),
         d |-> Pow10(ps.ema_render_time.e) * c]

\* Python's round(): to the nearest integer, a tie to the even one
round(x) ==
    LET q == (2 * x.n + x.d) \div (2 * x.d)
    IN  IF (2 * x.n + x.d) % (2 * x.d) = 0 /\ q % 2 # 0 THEN q - 1 ELSE q

(***************************************************************************)
(* State                                                                   *)
(***************************************************************************)
VARIABLES
    objects,         \* scene.objects with their animation data
    frame_start,     \* scene.frame_start
    frame_end,       \* scene.frame_end
    frame_current,   \* scene.frame_current
    i,               \* scene.i, the frame cursor
    sleek_running,   \* scene.sleek_running
    sleek_progress,  \* scene.sleek_progress, the fraction <<n, d>>
    sleek_eta,       \* scene.sleek_eta: <<>> for "", <<s>> for s seconds
    process_state,   \* the module's dictionary _process_state
    files,           \* the sink: path |-> frame whose image the file holds
    timers,          \* number of registrations of process() with bpy.app.timers
    runs,            \* number of invocations of the Process operator
    addon_prefs,     \* whether bpy.context.preferences.addons holds the add-on
    copy_failed,     \* since the run began, a copy failed
    file_lost,       \* since the run began, an output file disappeared
    log,             \* the current run's decisions, in order: TRUE for a copy
    visited,         \* the frames the current run has handled, in order
    stop_pending,    \* Stop was invoked and process() has not been called since
    batch,           \* the batch render loop render(): its position, i, prev, images
    analysis,        \* how the last Analyze Full Scene ended and what it counted
    last_step        \* what the last operation did

vars == <<objects, frame_start, frame_end, frame_current, i, sleek_running,
          sleek_progress, sleek_eta, process_state, files, timers, runs,
          addon_prefs, copy_failed, file_lost, log, visited, stop_pending,
          batch, analysis, last_step>>

scene_vars == <<objects, frame_start, frame_end, addon_prefs>>

\* the literal of lines 104-117; prev_changed_objects and
\* prev_changed_materials are absent from it and read with the default set()
initial_process_state ==
    [stop |-> FALSE,
     skip_list |-> <<>>,
     total_skip |-> 0,
     total_render |-> 0,
     skip_time_total |-> 0,
     skip_count_done |-> 0,
     render_time_total |-> 0,
     render_count_done |-> 0,
     last_rendered_path |-> NoPath,
     ema_render_time |-> Zero,
     prev_changed_objects |-> {},
     prev_changed_materials |-> {}]

NoStep == [kind |-> "none", frame |-> 0, sig |-> <<{}, {}>>, is_duplicate |-> FALSE,
           cost |-> 0, src |-> NoPath, src_exists |-> FALSE,
           after_stop |-> FALSE, eta_before |-> <<>>,
           before |-> initial_process_state]

\* render() has not been called; NoHash stands for Python's None
NoHash == [none |-> TRUE, fallback |-> FALSE, slopes |-> <<>>]

NoBatch == [pc |-> "idle", i |-> 0, prev |-> <<NoHash, NoPath>>, images |-> <<>>,
            visited |-> <<>>]

\* the Analyze Full Scene operator has not been invoked
NoAnalysis == [outcome |-> "none", duplicates |-> 0, total_frames |-> 0,
               frame_before |-> 0]

HostInit ==
    /\ batch = NoBatch
    /\ analysis = NoAnalysis
    /\ i = 0
    /\ sleek_running = FALSE
    /\ sleek_progress = <<0, 1>>
    /\ sleek_eta = <<>>
    /\ process_state = initial_process_state
    /\ files = <<>>
    /\ timers = 0
    /\ runs = 0
    /\ copy_failed = FALSE
    /\ file_lost = FALSE
    /\ log = <<>>
    /\ visited = <<>>
    /\ stop_pending = FALSE
    /\ last_step = NoStep

\* the scenes of the dry-pass specification
PlanScenes ==
    Scenes(Library(MaxFrame), {{}, {Ramp}},
           Materials({c \in Library(MaxFrame) : c.slope = MaxSlope}))

\* the scenes of the run specification
RunScenes ==
    Scenes({c \in Library(RunMaxFrame) : c.k1 >= 1 /\ c.slope = MaxSlope}, {{}},
           {m \in Materials({}) : m.use_nodes})

InitPlan ==
    /\ objects \in PlanScenes
    /\ frame_start \in 1..MaxFrame
    /\ frame_end \in 1..MaxFrame
    /\ frame_current \in {1, MaxFrame}
    /\ addon_prefs \in BOOLEAN
    /\ HostInit

Init ==
    /\ objects \in RunScenes
    /\ frame_start \in 1..2
    /\ frame_end \in 1..RunMaxFrame
    /\ frame_current = 1
    /\ addon_prefs \in BOOLEAN
    /\ HostInit

(***************************************************************************)
(* The sink                                                                *)
(***************************************************************************)
exists(fs, path) == path \in DOMAIN fs

Put(fs, path, content) ==
    [q \in (DOMAIN fs) \cup {path} |-> IF q = path THEN content ELSE fs[q]]

Remove(fs, path) == [q \in (DOMAIN fs) \ {path} |-> fs[q]]

\* bpy.ops.render.render(write_still=True): the image of the current frame
\* is written to scene.render.filepath
render_still(fs, path, frame, run) == Put(fs, path, [frame |-> frame, run |-> run])

\* shutil.copyfile(src, dst)
copyfile(fs, src, dst) == Put(fs, dst, fs[src])

\* what the clock measures for a render and for a copy; the durations enter
\* the statistics only and decide no branch
RenderDurations == {MaxRenderDuration}
CopyDurations == {MaxCopyDuration}
\* save_duration: two readings of the clock with nothing between them
SaveDurations == {0}

(***************************************************************************)
(* The Process operator, PROCESS_OT_Sleek.execute                          *)
(***************************************************************************)
\* a start that forgets to clear last_rendered_path
execute_state_keeps_path(ps, plan) ==
    [ps EXCEPT !.stop = FALSE,
               !.skip_list = plan.skip_list,
               !.total_skip = plan.total_skip,
               !.total_render = plan.total_render,
               !.ema_render_time = Zero]

\* lines 146-153: what a started run writes into _process_state
execute_state(ps, plan) ==
    [ps EXCEPT !.stop = FALSE,
               !.skip_list = plan.skip_list,
               !.total_skip = plan.total_skip,
               !.total_render = plan.total_render,
               !.last_rendered_path = NoPath,
               !.ema_render_time = Zero]

PROCESS_OT_Sleek_execute ==
    /\ ~sleek_running
    /\ runs < MaxRuns
    /\ runs' = runs + 1
    /\ sleek_progress' = <<0, 1>>
    /\ sleek_running' = TRUE
    /\ sleek_eta' = <<>>
    /\ i' = frame_start
    /\ copy_failed' = FALSE
    /\ file_lost' = FALSE
    /\ log' = <<>>
    /\ visited' = <<>>
    /\ IF ~addon_prefs
        THEN /\ process_state' = [process_state EXCEPT !.stop = FALSE]
             /\ last_step' = [NoStep EXCEPT !.kind = "no_prefs", !.before = process_state]
             /\ UNCHANGED <<frame_current, timers>>
        ELSE LET plan == simulate_skip_frames(objects, frame_start, frame_end, frame_current)
             IN  /\ process_state' = execute_state(process_state, plan)
                 /\ frame_current' = plan.frame_current
                 /\ timers' = timers + 1
                 /\ last_step' = [NoStep EXCEPT !.kind = "start", !.before = process_state]
    /\ UNCHANGED <<scene_vars, files, stop_pending, batch, analysis>>

(***************************************************************************)
(* The timer callback process()                                            *)
(***************************************************************************)
\* a comparison that forgets the materials
is_duplicate_frame_objects_only(ps, sig) ==
    sig[1] = ps.prev_changed_objects

\* lines 201-204
is_duplicate_frame(ps, sig) ==
    sig = <<ps.prev_changed_objects, ps.prev_changed_materials>>

\* a render that does not record its output path
rendered_keeps_path(ps, path, render_duration, save_duration) ==
    [ps EXCEPT !.render_time_total = @ + render_duration + save_duration,
               !.render_count_done = @ + 1]

\* lines 230-232, 243-245, 256-258: the statistics of a rendered frame
rendered(ps, path, render_duration, save_duration) ==
    [ps EXCEPT !.render_time_total = @ + render_duration + save_duration,
               !.render_count_done = @ + 1,
               !.last_rendered_path = path]

\* lines 217-218: the statistics of a copied frame
copied(ps, copy_duration) ==
    [ps EXCEPT !.skip_time_total = @ + copy_duration,
               !.skip_count_done = @ + 1]

\* an except branch that only reports the failed copy
copy_fallback_drops_frame(ps, fs, path, run, rd, sd) ==
    [kind |-> "fallback", renders |-> FALSE, cost |-> 0, ps |-> ps, files |-> fs]

\* an except branch that books the render under the copy statistics
copy_fallback_counts_skip(ps, fs, path, run, rd, sd) ==
    [kind |-> "fallback", renders |-> TRUE, cost |-> rd + sd,
     ps |-> [ps EXCEPT !.skip_time_total = @ + rd + sd,
                       !.skip_count_done = @ + 1,
                       !.last_rendered_path = path],
     files |-> render_still(fs, path, path, run)]

\* lines 219-232: the except branch of a failed copy renders the frame
copy_fallback(ps, fs, path, run, rd, sd) ==
    [kind |-> "fallback", renders |-> TRUE, cost |-> rd + sd,
     ps |-> rendered(ps, path, rd, sd),
     files |-> render_still(fs, path, path, run)]

\* line 208: there is a previous output and its file is still there
can_copy(ps, fs) ==
    ps.last_rendered_path # NoPath /\ exists(fs, ps.last_rendered_path)

\* lines 206-258: the branch taken for the frame at path, given whether the
\* copy would succeed and the durations the clock would measure
branch(ps, fs, path, sig, run, copy_ok, rd, sd, cd) ==
    IF is_duplicate_frame(ps, sig)
    THEN IF can_copy(ps, fs)
         THEN IF path # ps.last_rendered_path
              THEN IF copy_ok
                   THEN [kind |-> "copy", renders |-> FALSE, cost |-> 0,
                         ps |-> copied(ps, cd),
                         files |-> copyfile(fs, ps.last_rendered_path, path)]
                   ELSE copy_fallback(ps, fs, path, run, rd, sd)
              ELSE [kind |-> "same_path", renders |-> FALSE, cost |-> 0,
                    ps |-> ps, files |-> fs]
         ELSE [kind |-> "render_no_previous", renders |-> TRUE, cost |-> rd + sd,
               ps |-> rendered(ps, path, rd, sd),
               files |-> render_still(fs, path, path, run)]
    ELSE [kind |-> "render", renders |-> TRUE, cost |-> rd + sd,
          ps |-> rendered(ps, path, rd, sd),
          files |-> render_still(fs, path, path, run)]

\* lines 260-269: the moving average and the previous signature
after_branch(ps, sig, cost) ==
    [ps EXCEPT !.ema_render_time = ema_update(cost, @),
               !.prev_changed_objects = sig[1],
               !.prev_changed_materials = sig[2]]

\* the fraction taken from the cursor before its increment
progress_before_increment(cursor, start, end) ==
    LET total_frames == end - start + 1
    IN  IF total_frames > 0
        THEN <<Min(Max(cursor - 1 - start, 0), total_frames), total_frames>>
        ELSE <<0, 1>>

\* lines 301-306, and the hard limits min=0.0, max=1.0 of the property
progress(cursor, start, end) ==
    LET total_frames == end - start + 1
    IN  IF total_frames > 0
        THEN <<Min(Max(cursor - start, 0), total_frames), total_frames>>
        ELSE <<0, 1>>

\* a cursor that skips a frame
next_frame_skips(cursor) == cursor + 2

\* line 299: scene.i += 1
next_frame(cursor) == cursor + 1

\* one call of process() by the timer; render_outcomes are the outcomes the
\* render call may have, TRUE for a success and FALSE for an exception
process_with(render_outcomes) ==
    /\ timers > 0
    /\ stop_pending' = FALSE
    /\ IF process_state.stop \/ i > frame_end
       THEN /\ sleek_running' = FALSE
            /\ timers' = timers - 1
            /\ last_step' = [NoStep EXCEPT !.kind = "finish", !.frame = i,
                                           !.after_stop = stop_pending,
                                           !.eta_before = sleek_eta,
                                           !.before = process_state]
            /\ UNCHANGED <<frame_current, i, sleek_progress, sleek_eta,
                           process_state, files, copy_failed, file_lost, log,
                           visited>>
       ELSE \E copy_ok \in BOOLEAN, render_ok \in render_outcomes,
               rd \in RenderDurations, sd \in SaveDurations, cd \in CopyDurations :
            \* each value is computed once, as the code computes it
            \E sig \in {detect_changing(objects, frame_set(i), frame_start)} :
            \E b \in {branch(process_state, files, i, sig, runs, copy_ok, rd, sd, cd)} :
            \E ps \in {after_branch(b.ps, sig, b.cost)} :
            LET step == [kind |-> b.kind, frame |-> i, sig |-> sig,
                         is_duplicate |-> is_duplicate_frame(process_state, sig),
                         cost |-> b.cost, src |-> process_state.last_rendered_path,
                         src_exists |-> can_copy(process_state, files),
                         after_stop |-> stop_pending, eta_before |-> sleek_eta,
                         before |-> process_state]
            IN  /\ frame_current' = frame_set(i)
                /\ IF b.renders /\ ~render_ok
                   THEN \* the render raises: the callback ends and is not rescheduled
                        /\ timers' = timers - 1
                        /\ last_step' = [step EXCEPT !.kind = "render_error", !.cost = 0]
                        /\ copy_failed' = (copy_failed \/ b.kind = "fallback")
                        /\ UNCHANGED <<i, sleek_running, sleek_progress, sleek_eta,
                                       process_state, files, file_lost, log,
                                       visited>>
                   ELSE /\ process_state' = ps
                        /\ files' = b.files
                        /\ sleek_eta' = <<round(eta_seconds(ps))>>
                        /\ i' = next_frame(i)
                        /\ sleek_progress' = progress(next_frame(i), frame_start, frame_end)
                        /\ log' = Append(log, b.kind = "copy")
                        /\ visited' = Append(visited, i)
                        /\ copy_failed' = (copy_failed \/ b.kind = "fallback")
                        /\ last_step' = step
                        /\ UNCHANGED <<sleek_running, timers, file_lost>>
    /\ UNCHANGED <<scene_vars, runs, batch, analysis>>

process == process_with(BOOLEAN)

(***************************************************************************)
(* The Stop operator, STOP_OT_Sleek.execute                                *)
(***************************************************************************)
STOP_OT_Sleek_execute ==
    /\ sleek_running
    /\ process_state' = [process_state EXCEPT !.stop = TRUE]
    /\ sleek_running' = FALSE
    /\ stop_pending' = TRUE
    /\ last_step' = [NoStep EXCEPT !.kind = "stop", !.before = process_state]
    /\ UNCHANGED <<scene_vars, frame_current, i, sleek_progress, sleek_eta, files,
                   timers, runs, copy_failed, file_lost, log, visited, batch,
                   analysis>>

(***************************************************************************)
(* The environment: once during a run the file of the previous output, the *)
(* one whose presence process() tests, disappears from the sink            *)
(***************************************************************************)
FileDisappears ==
    /\ timers > 0
    /\ ~file_lost
    /\ \E path \in (DOMAIN files) \cap {process_state.last_rendered_path} :
        /\ files' = Remove(files, path)
        /\ file_lost' = TRUE
        /\ last_step' = [NoStep EXCEPT !.kind = "file_lost", !.frame = path,
                                       !.before = process_state]
    /\ UNCHANGED <<scene_vars, frame_current, i, sleek_running, sleek_progress,
                   sleek_eta, process_state, timers, runs, copy_failed, log,
                   visited, stop_pending, batch, analysis>>

Next ==
    \/ PROCESS_OT_Sleek_execute
    \/ process
    \/ STOP_OT_Sleek_execute
    \/ FileDisappears

Spec == Init /\ [][Next]_vars

\* the dry pass alone, over the larger scenes
NextPlan == PROCESS_OT_Sleek_execute

SpecPlan == InitPlan /\ [][NextPlan]_vars

\* runs in which Stop is never invoked and no render call raises; the timer
\* keeps calling process() for as long as it is registered
process_undisturbed == process_with({TRUE})

NextUndisturbed ==
    \/ PROCESS_OT_Sleek_execute
    \/ process_undisturbed
    \/ FileDisappears

SpecUndisturbed == Init /\ [][NextUndisturbed]_vars /\ WF_vars(process_undisturbed)

(***************************************************************************)
(* The batch render of render.py (script.py holds the same loop)           *)
(***************************************************************************)
\* hash.py lines 23-27: for each f-curve of an action, next - current
slopes(fcurves, frame) ==
    {<<fcurve, evaluate(fcurve, frame + 1) - evaluate(fcurve, frame)>> : fcurve \in fcurves}

\* hash.py lines 1-9: the objects' transforms; it is used only when no
\* entity has a curve, and then it is the same at every frame
fallback_hash_frame(objs) ==
    [none |-> FALSE, fallback |-> TRUE, slopes |-> <<>>]

\* hash.py lines 12-52: the slopes of every curve reached, in the fixed order
\* of the objects, their modifiers and their material slots
hash_frame(objs, frame) ==
    LET of_object(obj) ==
            [object |-> slopes(obj.fcurves, frame),
             modifiers |-> [k \in DOMAIN obj.modifiers |-> slopes(obj.modifiers[k], frame)],
             materials |->
                [sl \in DOMAIN obj.material_slots |->
                    IF obj.material_slots[sl] = <<>> THEN <<{}, {}>>
                    ELSE LET material == obj.material_slots[sl][1]
                         IN  <<slopes(material.fcurves, frame),
                               IF material.use_nodes
                               THEN slopes(material.node_tree, frame) ELSE {}>>]]
        all == [k \in DOMAIN objs |-> of_object(objs[k])]
        empty ==
            \A k \in DOMAIN all :
                /\ all[k].object = {}
                /\ \A m \in DOMAIN all[k].modifiers : all[k].modifiers[m] = {}
                /\ \A sl \in DOMAIN all[k].materials : all[k].materials[sl] = <<{}, {}>>
    IN  IF empty THEN fallback_hash_frame(objs)
        ELSE [none |-> FALSE, fallback |-> FALSE, slopes |-> all]

\* render.py line 11: range(scene.frame_start, scene.frame_end)
render_range(start, end) == start..(end - 1)

\* script.py line 115: render() is called, once
render_call ==
    /\ batch.pc = "idle"
    /\ batch' = [NoBatch EXCEPT !.pc = "loop", !.i = frame_start]
    /\ UNCHANGED <<scene_vars, frame_current, i, sleek_running, sleek_progress,
                   sleek_eta, process_state, files, timers, runs, copy_failed,
                   file_lost, log, visited, stop_pending, analysis, last_step>>

\* render.py lines 12-24: one iteration of the for loop
render_iteration ==
    /\ batch.pc = "loop"
    /\ batch.i \in render_range(frame_start, frame_end)
    /\ frame_current' = frame_set(batch.i)
    /\ LET current_path == batch.i
           current_hash == hash_frame(objects, frame_set(batch.i))
       IN  batch' =
             IF batch.prev[1] # current_hash
             THEN [batch EXCEPT !.prev = <<current_hash, batch.i>>,
                                !.images = render_still(@, current_path, batch.i, 1),
                                !.visited = Append(@, batch.i),
                                !.i = @ + 1]
             ELSE [batch EXCEPT !.images = copyfile(@, batch.prev[2], current_path),
                                !.visited = Append(@, batch.i),
                                !.i = @ + 1]
    /\ UNCHANGED <<scene_vars, i, sleek_running, sleek_progress, sleek_eta,
                   process_state, files, timers, runs, copy_failed, file_lost, log,
                   visited, stop_pending, analysis, last_step>>

\* the range is exhausted: render() returns
render_return ==
    /\ batch.pc = "loop"
    /\ batch.i \notin render_range(frame_start, frame_end)
    /\ batch' = [batch EXCEPT !.pc = "done"]
    /\ UNCHANGED <<scene_vars, frame_current, i, sleek_running, sleek_progress,
                   sleek_eta, process_state, files, timers, runs, copy_failed,
                   file_lost, log, visited, stop_pending, analysis, last_step>>

NextBatch ==
    \/ render_call
    \/ render_iteration
    \/ render_return

SpecBatch == Init /\ [][NextBatch]_vars

(***************************************************************************)
(* The Analyze Full Scene operator                                         *)
(***************************************************************************)
\* lines 398-405: one iteration of the operator's for loop
analyze_body(objs, start, frame, st) ==
    LET current == frame_set(frame)
        sig == detect_changing(objs, current, start)
    IN  [frame_current |-> current,
         prev |-> sig,
         duplicates |-> st.duplicates + (IF sig = st.prev THEN 1 ELSE 0)]

RECURSIVE analyze_sweep(_, _, _, _, _)
analyze_sweep(objs, start, end, frame, st) ==
    IF frame > end THEN st
    ELSE analyze_sweep(objs, start, end, frame + 1, analyze_body(objs, start, frame, st))

\* lines 388-409: the count, the restored frame and the percentage, whose
\* division by total_frames - 1 raises when that is zero
analyze_scene(objs, start, end, original_frame) ==
    LET total_frames == end - start + 1
        first == [frame_current |-> frame_set(start),
                  prev |-> detect_changing(objs, frame_set(start), start),
                  duplicates |-> 0]
        swept == analyze_sweep(objs, start, end, start + 1, first)
    IN  [outcome |-> IF total_frames - 1 = 0 THEN "ZeroDivisionError" ELSE "FINISHED",
         duplicates |-> swept.duplicates,
         total_frames |-> total_frames,
         frame_current |-> frame_set(original_frame)]

ANALYZE_SCENE_OT_Sleek_execute ==
    /\ analysis.outcome = "none"
    /\ LET result == analyze_scene(objects, frame_start, frame_end, frame_current)
       IN  /\ frame_current' = result.frame_current
           /\ analysis' = [outcome |-> result.outcome,
                           duplicates |-> result.duplicates,
                           total_frames |-> result.total_frames,
                           frame_before |-> frame_current]
    /\ UNCHANGED <<scene_vars, i, sleek_running, sleek_progress, sleek_eta,
                   process_state, files, timers, runs, copy_failed, file_lost, log,
                   visited, stop_pending, batch, last_step>>

NextAnalyze == ANALYZE_SCENE_OT_Sleek_execute

SpecAnalyze == InitPlan /\ [][NextAnalyze]_vars

(***************************************************************************)
(* Properties                                                              *)
(***************************************************************************)
\* the last operation was a call of process() that handled a frame to the end
Worked == last_step.kind \in {"copy", "fallback", "same_path", "render_no_previous", "render"}

\* ... and it rendered the frame
Rendered == last_step.kind \in {"fallback", "render_no_previous", "render"}

\* the file at path is the image this run rendered for frame
HoldsRender(path, frame) ==
    exists(files, path) /\ files[path] = [frame |-> frame, run |-> runs]

\* every f-curve that detect_changing() reaches has, within the tolerance,
\* the same value at frame and at frame - 1
SameVisibleState(frame) ==
    \A obj \in Range(objects) :
        /\ ~changed(obj.fcurves, frame, frame - 1)
        /\ \A k \in DOMAIN obj.modifiers : ~changed(obj.modifiers[k], frame, frame - 1)
        /\ \A s \in DOMAIN obj.material_slots :
            obj.material_slots[s] # <<>> =>
                LET mat == obj.material_slots[s][1]
                IN  /\ ~changed(mat.fcurves, frame, frame - 1)
                    /\ mat.use_nodes => ~changed(mat.node_tree, frame, frame - 1)

\* C1: while no copy has failed and no output file has disappeared since the
\* run began, the decisions process() has taken so far in the run, first or
\* later (TRUE for a copy, FALSE for a render), are the entries of the skip
\* list that simulate_skip_frames() returned at the start of the run.
C1_PlanRunConsistency ==
    (runs > 0 /\ addon_prefs /\ ~copy_failed /\ ~file_lost) =>
        /\ Len(log) = i - frame_start
        /\ Len(log) <= Len(process_state.skip_list)
        /\ \A k \in 1..Len(log) : log[k] = process_state.skip_list[k]
        /\ i > frame_end => Len(log) = Len(process_state.skip_list)

C1_Witness ==
    /\ runs = 2
    /\ ~copy_failed /\ ~file_lost
    /\ i > frame_end
    /\ Len(log) = 3
    /\ log[2] # log[3]

\* C2: process() copies the previous output for a frame only if every curve
\* has the same value, within the tolerance, at the frame and at the frame
\* before it.
C2_CopyOnlyIfIdentical ==
    last_step.kind = "copy" => SameVisibleState(last_step.frame)

\* C3: a step of process() that has handled a frame to the end, by whichever
\* branch, leaves the output file of that frame in the sink and the cursor
\* on the next frame; and while no output file has disappeared since the run
\* began, every frame from the start of the range up to the cursor, that is
\* every frame the run has handled, has its output file.
C3_Completeness ==
    /\ Worked => (exists(files, last_step.frame) /\ i = last_step.frame + 1)
    /\ (runs > 0 /\ addon_prefs /\ ~file_lost) =>
            \A f \in frame_start..(i - 1) : exists(files, f)

C3_Witness ==
    /\ ~file_lost
    /\ copy_failed
    /\ i > frame_end
    /\ frame_end - frame_start = 2
    /\ \E k \in 1..Len(log) : log[k]

\* C4: a step whose copy failed has rendered the frame in that same step,
\* has counted it under render_count_done and render_time_total and not under
\* skip_count_done and skip_time_total, has moved the cursor to the next
\* frame and has left the callback registered.
C4_CopyFailureFallsBack ==
    last_step.kind = "fallback" =>
        /\ HoldsRender(last_step.frame, last_step.frame)
        /\ process_state.render_count_done = last_step.before.render_count_done + 1
        /\ process_state.render_time_total
            = last_step.before.render_time_total + last_step.cost
        /\ process_state.skip_count_done = last_step.before.skip_count_done
        /\ process_state.skip_time_total = last_step.before.skip_time_total
        /\ process_state.last_rendered_path = last_step.frame
        /\ i = last_step.frame + 1
        /\ timers > 0

C4_Witness ==
    /\ last_step.kind = "fallback"
    /\ last_step.frame < frame_end
    /\ last_step.before.skip_count_done > 0

\* the scenario of C5: one entity with one curve, constant on [1, 3] and
\* rising linearly on [3, 5], and the range [1, 5]
C5_Scenario ==
    /\ objects = <<[name |-> "Cube",
                    fcurves |-> {[k1 |-> 3, k2 |-> 5, slope |-> MaxSlope]},
                    modifiers |-> <<{}>>,
                    material_slots |-> <<<<>>>>]>>
    /\ frame_start = 1
    /\ frame_end = 5

\* C5: in that scenario simulate_skip_frames() returns the skip list
\* [false, true, true, false, false], total_skip 2 and total_render 3.
C5_ScenarioPlan ==
    (C5_Scenario /\ last_step.kind = "start") =>
        /\ process_state.skip_list = <<FALSE, TRUE, TRUE, FALSE, FALSE>>
        /\ process_state.total_skip = 2
        /\ process_state.total_render = 3

\* C6: for a range with start <= end the plan has end - start + 1 entries,
\* its first entry is false, total_skip is the number of true entries and
\* total_skip + total_render is end - start + 1.
C6_PlanCounts ==
    (last_step.kind = "start" /\ frame_start <= frame_end) =>
        /\ Len(process_state.skip_list) = frame_end - frame_start + 1
        /\ process_state.skip_list[1] = FALSE
        /\ process_state.total_skip
            = Cardinality({k \in DOMAIN process_state.skip_list : process_state.skip_list[k]})
        /\ process_state.total_skip + process_state.total_render
            = frame_end - frame_start + 1

C6_Witness ==
    /\ last_step.kind = "start"
    /\ frame_end - frame_start >= 3
    /\ process_state.total_skip >= 2
    /\ process_state.total_render >= 2

\* C7: in every run the first frame of the range is rendered, never copied,
\* whatever an earlier run left in _process_state; and a frame judged
\* duplicate while no previous output path is recorded, or while the recorded
\* file is gone, is rendered, not copied.
C7_RenderWithoutPrevious ==
    /\ (Worked /\ last_step.frame = frame_start) =>
            /\ Rendered
            /\ HoldsRender(last_step.frame, last_step.frame)
    /\ (Worked /\ last_step.is_duplicate
            /\ (last_step.src = NoPath \/ ~last_step.src_exists)) =>
            /\ last_step.kind = "render_no_previous"
            /\ HoldsRender(last_step.frame, last_step.frame)

\* the first frame of a second run, judged duplicate against the signature
\* and beside the output path that the first run left behind
C7_Witness ==
    /\ runs = 2
    /\ last_step.kind = "render_no_previous"
    /\ last_step.frame = frame_start
    /\ last_step.before.render_count_done > 0
    /\ last_step.before.prev_changed_objects = {}

\* a later frame, judged duplicate, whose previous output has disappeared
C7_WitnessFileGone ==
    /\ last_step.kind = "render_no_previous"
    /\ last_step.frame > frame_start
    /\ last_step.src # NoPath
    /\ ~last_step.src_exists

\* C8: a step that copies leaves ema_render_time unchanged, and a step that
\* renders sets it to 0.3 * cost + 0.7 * its previous value.
C8_EmaOnlyFromRenders ==
    /\ last_step.kind = "copy" =>
            process_state.ema_render_time = last_step.before.ema_render_time
    /\ Rendered =>
            process_state.ema_render_time
                = ema_update(last_step.cost, last_step.before.ema_render_time)

\* C9: after every step of process() the remaining render count, the
\* remaining skip count and the ETA are >= 0.
C9_EtaNeverNegative ==
    Worked =>
        /\ render_left(process_state) >= 0
        /\ skip_left(process_state) >= 0
        /\ eta_seconds(process_state).n >= 0
        /\ sleek_eta[1] >= 0

\* C10: right after the Process operator has started a run the five timing
\* accumulators are zero.
C10_StartResetsAccumulators ==
    last_step.kind = "start" =>
        /\ process_state.skip_time_total = 0
        /\ process_state.skip_count_done = 0
        /\ process_state.render_time_total = 0
        /\ process_state.render_count_done = 0
        /\ process_state.ema_render_time = Zero

\* the last operation was a call of process()
Called == Worked \/ last_step.kind \in {"finish", "render_error"}

\* C11: the first call of process() after Stop was invoked renders nothing,
\* copies nothing, leaves the cursor where it was and ends the run: the
\* scheduler is not running and the callback is not registered any more.
C11_StopEndsRunAtNextCall ==
    (Called /\ last_step.after_stop) =>
        /\ last_step.kind = "finish"
        /\ ~sleek_running
        /\ timers = 0

\* C12: a step whose render call raised leaves the scheduler not running
\* and no callback of the run registered, so that the run neither handles
\* another frame nor tries the failed frame again.
C12_RenderFailureEndsRun ==
    last_step.kind = "render_error" =>
        /\ ~sleek_running
        /\ timers = 0

\* C13: the Process operator invoked without the add-on's preferences has
\* registered no callback, has written no file and leaves the scheduler not
\* running.
C13_NoPrefsNoRun ==
    last_step.kind = "no_prefs" =>
        /\ timers = 0
        /\ DOMAIN files = {}
        /\ ~sleek_running

\* C14: for a range with start > end simulate_skip_frames() returns an empty
\* skip list, total_skip 0 and total_render 0, and the run ends at its first
\* call of process() without having rendered or copied a frame.
C14_EmptyRange ==
    (frame_start > frame_end /\ runs > 0 /\ addon_prefs) =>
        /\ process_state.skip_list = <<>>
        /\ process_state.total_skip = 0
        /\ process_state.total_render = 0
        /\ Called => (last_step.kind = "finish" /\ ~sleek_running)
        /\ visited = <<>>
        /\ DOMAIN files = {}
        /\ i = frame_start

C14_Witness ==
    /\ frame_start > frame_end
    /\ last_step.kind = "finish"
    /\ ~last_step.before.stop

\* the frames of the range, in increasing order
FramesOfRange == [k \in 1..(frame_end - frame_start + 1) |-> frame_start + k - 1]

\* the run has ended and has handled every frame of the range once, in order
C15_Completed ==
    /\ last_step.kind = "finish"
    /\ ~sleek_running
    /\ timers = 0
    /\ i = frame_end + 1
    /\ visited = FramesOfRange

\* C15: a run over a range with start <= end, in which Stop is not invoked
\* and no render call raises, handles the frames in increasing order from
\* start, one per working step, and ends; when it ends it has taken
\* end - start + 1 working steps and has handled start..end once each.
C15_RunCompletes ==
    /\ [](\A k \in 1..Len(visited) : visited[k] = frame_start + k - 1)
    /\ []((last_step.kind = "finish" /\ frame_start <= frame_end) => C15_Completed)
    /\ ((last_step.kind = "start" /\ frame_start <= frame_end) ~> C15_Completed)

C15_Witness ==
    /\ C15_Completed
    /\ Len(visited) = 3
    /\ copy_failed

\* C16: after every step of process() that handled a frame, sleek_progress
\* is (cursor - start) / (end - start + 1) for the cursor the step has
\* advanced, lies between 0 and 1, and is 1 when the frame handled was the
\* last of the range.
C16_ProgressFraction ==
    Worked =>
        LET total_frames == frame_end - frame_start + 1
        IN  /\ sleek_progress = <<i - frame_start, total_frames>>
            /\ 0 <= sleek_progress[1]
            /\ sleek_progress[1] <= sleek_progress[2]
            /\ last_step.frame = frame_end => sleek_progress[1] = sleek_progress[2]
            /\ last_step.frame < frame_end => sleek_progress[1] < sleek_progress[2]

C16_Witness ==
    /\ Worked
    /\ last_step.frame = frame_end
    /\ frame_end = frame_start + 2
    /\ sleek_progress = <<3, 3>>

\* C17: in a first run with one cost for every render and one cost for every
\* copy, in which no copy fails and no output file disappears, the ETA that
\* a working step reports is smaller than the ETA the step before it
\* reported, or both are zero.
C17_EtaDecreases ==
    (Worked /\ runs = 1 /\ ~copy_failed /\ ~file_lost /\ last_step.eta_before # <<>>) =>
        \/ sleek_eta[1] < last_step.eta_before[1]
        \/ (sleek_eta[1] = 0 /\ last_step.eta_before[1] = 0)

\* no object, modifier, material or node tree of the scene has a curve
NoAnimation ==
    \A obj \in Range(objects) :
        /\ obj.fcurves = {}
        /\ \A k \in DOMAIN obj.modifiers : obj.modifiers[k] = {}
        /\ \A s \in DOMAIN obj.material_slots :
            obj.material_slots[s] # <<>> =>
                LET mat == obj.material_slots[s][1]
                IN  mat.fcurves = {} /\ (mat.use_nodes => mat.node_tree = {})

C18_WitnessAnimated ==
    /\ ~NoAnimation
    /\ last_step.kind = "start"
    /\ \E k \in 2..(Len(process_state.skip_list) - 1) :
            process_state.skip_list[k] # process_state.skip_list[k + 1]

\* C19: a call of simulate_skip_frames(), whether it sweeps the range or
\* returns at once for an empty range, leaves the scene's current frame at
\* the value it had before the call.
C19_FrameRestored ==
    [][last_step'.kind = "start" => frame_current' = frame_current]_vars

\* the sweep has moved the scene to a last frame other than the one it was on
C19_Witness ==
    /\ last_step.kind = "start"
    /\ frame_start < frame_end
    /\ frame_current # frame_end
    /\ Len(process_state.skip_list) = frame_end - frame_start + 1

\* the early return
C19_WitnessEmpty ==
    /\ last_step.kind = "start"
    /\ frame_start > frame_end
    /\ frame_current = MaxFrame

\* the signature that the last working step stored is the one it computed
StoredSignature ==
    <<process_state.prev_changed_objects, process_state.prev_changed_materials>>
        = last_step.sig

\* C20, as the specification states it: after every working step the stored
\* previous signature is the signature computed in the step and
\* last_rendered_path is the path of the file the step produced, rendered
\* or copied.
C20_PathOfFileJustProduced ==
    Worked =>
        /\ StoredSignature
        /\ process_state.last_rendered_path = last_step.frame

\* C20: after every working step the stored previous signature is the
\* signature computed in the step; last_rendered_path is the path of the
\* step's file when the step rendered it, and when the step copied it
\* last_rendered_path is unchanged: it stays the path of the last rendered
\* frame, an earlier frame, which was the source of the copy.
C20_PathOfLastRender ==
    Worked =>
        /\ StoredSignature
        /\ Rendered => process_state.last_rendered_path = last_step.frame
        /\ last_step.kind = "copy" =>
                /\ process_state.last_rendered_path = last_step.before.last_rendered_path
                /\ process_state.last_rendered_path = last_step.src
                /\ process_state.last_rendered_path < last_step.frame
                /\ files[last_step.frame] = files[last_step.src]

\* a copy that follows a copy: the recorded path is two frames behind
C20_Witness ==
    /\ last_step.kind = "copy"
    /\ process_state.last_rendered_path = last_step.frame - 2
    /\ StoredSignature

\* C21: when render() has returned, every frame of the inclusive range
\* frame_start..frame_end has been visited and has its image in the sink.
C21_BatchCoversRange ==
    batch.pc = "done" =>
        \A f \in frame_start..frame_end :
            /\ \E k \in DOMAIN batch.visited : batch.visited[k] = f
            /\ exists(batch.images, f)

\* C22: when process() has copied a file for frame f, the source is the
\* file of an earlier frame that the current run rendered, every frame
\* between that frame and f holds a copy of it, and so the file of f holds
\* what the file of f - 1 holds.
C22_CopySource ==
    last_step.kind = "copy" =>
        LET f == last_step.frame
            src == last_step.src
        IN  /\ frame_start <= src /\ src < f
            /\ HoldsRender(src, src)
            /\ files[f] = files[src]
            /\ \A g \in (src + 1)..(f - 1) : exists(files, g) /\ files[g] = files[src]
            /\ exists(files, f - 1) /\ files[f] = files[f - 1]

\* a copy over two frames, in a second run that found the first run's files
C22_Witness ==
    /\ last_step.kind = "copy"
    /\ runs = 2
    /\ last_step.src = last_step.frame - 2
    /\ last_step.before.render_count_done > 1

\* C23: for a range with start <= end, the single frame included, the
\* Analyze Full Scene operator ends with a result, has counted as many
\* duplicates as simulate_skip_frames() gives in total_skip for the same
\* scene and range, and has left the scene on the frame it was on.
C23_AnalyzeAgreesWithPlan ==
    (analysis.outcome # "none" /\ frame_start <= frame_end) =>
        /\ analysis.outcome = "FINISHED"
        /\ analysis.duplicates
            = simulate_skip_frames(objects, frame_start, frame_end,
                                   analysis.frame_before).total_skip
        /\ frame_current = analysis.frame_before

====
